---------------------------- MODULE Spec2Model ----------------------------
(***************************************************************************)
(* Model of ftp_tree_viewer.py: the tree walk (ftp_tree), the recursive    *)
(* download (download_files) and the top level (main), driven over one FTP *)
(* connection whose remote current directory is shared mutable state.      *)
(*                                                                         *)
(* Text is modelled character by character: a string is a sequence of      *)
(* one-character strings.  The four box-drawing characters are written     *)
(* "CORNER", "TEE", "HBAR" and "VBAR"; a fixed message of the program is   *)
(* one piece of a line.                                                    *)
(***************************************************************************)
EXTENDS Integers, Sequences, FiniteSets, TLC

(***************************************************************************)
(* Bounds of the model.                                                    *)
(***************************************************************************)
\* number of failures the connection may inject into one run
MaxFaults == 1
\* largest value of --recursion tried
MaxRecursion == 3

(***************************************************************************)
(* Python values.                                                          *)
(***************************************************************************)
\* recursion_depth is None or an integer: None is <<>>, n is <<n>>
None == <<>>
Some(n) == <<n>>

\* code-point order of the characters used
CharOrder ==
  << " ", "*", "+", "-", ".", "/", "0", "1", ">", "?", "A", "J",
     "a", "b", "c", "d", "e", "f", "g", "h", "i", "k", "l", "m", "n", "o",
     "p", "r", "s", "t", "u", "v", "w", "x", "z",
     "HBAR", "VBAR", "CORNER", "TEE" >>

Ord(c) == CHOOSE i \in 1..Len(CharOrder) : CharOrder[i] = c

\* str.__lt__ : lexicographic order by code point
RECURSIVE StrLess(_, _)
StrLess(a, b) ==
  IF b = <<>> THEN FALSE
  ELSE IF a = <<>> THEN TRUE
  ELSE IF Head(a) = Head(b) THEN StrLess(Tail(a), Tail(b))
  ELSE Ord(Head(a)) < Ord(Head(b))

StrLeq(a, b) == a = b \/ StrLess(a, b)

\* str.startswith
StartsWith(s, p) == Len(s) >= Len(p) /\ SubSeq(s, 1, Len(p)) = p

\* str.endswith
EndsWith(s, p) == Len(s) >= Len(p) /\ SubSeq(s, Len(s) - Len(p) + 1, Len(s)) = p

\* c in s
Contains(s, c) == \E i \in 1..Len(s) : s[i] = c

\* str.rfind(c) + 1 : 1-based position of the last c, 0 when absent
RFind1(s, c) ==
  IF Contains(s, c) THEN CHOOSE i \in 1..Len(s) : s[i] = c /\ \A j \in (i+1)..Len(s) : s[j] # c
  ELSE 0

\* str.rstrip(c)
RECURSIVE RStrip(_, _)
RStrip(s, c) ==
  IF s # <<>> /\ s[Len(s)] = c THEN RStrip(SubSeq(s, 1, Len(s) - 1), c) ELSE s

\* str.split() : split on runs of whitespace, no empty fields
RECURSIVE SplitWs(_, _, _)
SplitWs(s, cur, acc) ==
  IF s = <<>> THEN (IF cur = <<>> THEN acc ELSE Append(acc, cur))
  ELSE IF Head(s) = " "
       THEN SplitWs(Tail(s), <<>>, IF cur = <<>> THEN acc ELSE Append(acc, cur))
       ELSE SplitWs(Tail(s), Append(cur, Head(s)), acc)

Split(line) == SplitWs(line, <<>>, <<>>)

\* str.split(sep) for a one-character separator: keeps empty fields
RECURSIVE SplitSep(_, _, _, _)
SplitSep(s, sep, cur, acc) ==
  IF s = <<>> THEN Append(acc, cur)
  ELSE IF Head(s) = sep THEN SplitSep(Tail(s), sep, <<>>, Append(acc, cur))
  ELSE SplitSep(Tail(s), sep, Append(cur, Head(s)), acc)

SplitOn(s, sep) == SplitSep(s, sep, <<>>, <<>>)

\* sep.join(parts)
RECURSIVE JoinWith(_, _)
JoinWith(parts, sep) ==
  IF parts = <<>> THEN <<>>
  ELSE IF Len(parts) = 1 THEN parts[1]
  ELSE parts[1] \o sep \o JoinWith(Tail(parts), sep)

\* seq[-1]
Last(s) == s[Len(s)]

(***************************************************************************)
(* os.path (posixpath) and fnmatch.                                        *)
(***************************************************************************)
\* os.path.basename
basename(p) == SubSeq(p, RFind1(p, "/") + 1, Len(p))

\* os.path.dirname
dirname(p) ==
  LET head == SubSeq(p, 1, RFind1(p, "/"))
  IN  IF head # <<>> /\ \E i \in 1..Len(head) : head[i] # "/"
      THEN RStrip(head, "/") ELSE head

\* os.path.join(a, b)
join2(a, b) ==
  IF StartsWith(b, <<"/">>) THEN b
  ELSE IF a = <<>> \/ EndsWith(a, <<"/">>) THEN a \o b
  ELSE a \o <<"/">> \o b

\* os.path.join(a, b, c)
join3(a, b, c) == join2(join2(a, b), c)

\* fnmatch.fnmatch for patterns made of literals, '*' and '?'
RECURSIVE fnmatch(_, _)
fnmatch(name, pat) ==
  IF pat = <<>> THEN name = <<>>
  ELSE IF Head(pat) = "*"
       THEN fnmatch(name, Tail(pat)) \/ (name # <<>> /\ fnmatch(Tail(name), pat))
  ELSE IF name = <<>> THEN FALSE
  ELSE (Head(pat) = "?" \/ Head(pat) = Head(name)) /\ fnmatch(Tail(name), Tail(pat))


(***************************************************************************)
(* sorted(items, key=lambda x: x[-1]) : stable, by the last field.         *)
(***************************************************************************)
RECURSIVE InsertByKey(_, _)
InsertByKey(sorted, x) ==
  IF sorted = <<>> THEN <<x>>
  ELSE IF StrLess(Last(x), Last(Last(sorted)))
       THEN Append(InsertByKey(SubSeq(sorted, 1, Len(sorted) - 1), x), Last(sorted))
       ELSE Append(sorted, x)

RECURSIVE SortAcc(_, _)
SortAcc(items, acc) ==
  IF items = <<>> THEN acc ELSE SortAcc(Tail(items), InsertByKey(acc, Head(items)))

sorted_items(items) == SortAcc(items, <<>>)

(***************************************************************************)
(* The remote server: a tree of directories, each with the raw lines its   *)
(* LIST returns.  A path is the sequence of its components.                *)
(***************************************************************************)
\* a listing line of 9 fields: permissions, 7 metadata fields, name
Line(perm, name) ==
  JoinWith(<<perm, <<"1">>, <<"u">>, <<"g">>, <<"0">>, <<"J">>, <<"1">>, <<"0">>, name>>, <<" ">>)

PermDir    == <<"d","r","w","x","r","-","x","r","-","x">>
PermDirWW  == <<"d","r","w","x","r","w","x","r","w","x">>
PermDirOwn == <<"d","r","w","x","-","-","-","-","-","-">>
PermFile   == <<"-","r","w","-","r","-","-","r","-","-">>
PermFileWW == <<"-","r","w","-","r","w","-","r","w","-">>
\* 11 characters: a world-writable file with an ACL mark
PermFileAcl == <<"-","r","w","-","r","w","-","r","w","-","+">>
PermLink   == <<"l","r","w","x","r","w","x","r","w","x">>

n_dirA    == <<"d","i","r","A">>
n_filetxt == <<"f","i","l","e",".","t","x","t">>
n_sub     == <<"s","u","b">>
n_hid     == <<".","h","i","d">>
n_note    == <<"n","o","t","e">>
n_deep    == <<"d","e","e","p">>
n_x       == <<"x">>
n_zlink   == <<"z","l","i","n","k">>
n_b       == <<"b">>
n_cd      == <<"c",".","d">>
n_priv    == <<"p","r","i","v">>
n_pub     == <<"p","u","b">>
n_docs    == <<"d","o","c","s">>
n_readme  == <<"r","e","a","d","m","e",".","t","x","t">>
n_f       == <<"f">>
n_g       == <<"g">>
n_dot     == <<".">>
n_dotdot  == <<".",".">>

\* scenario A of the specification, three levels deep below the root
ScnA ==
  ( <<>> :> << Line(PermFile, n_filetxt), Line(PermDir, n_dirA) >> ) @@
  ( <<n_dirA>> :> << Line(PermDirWW, n_sub), Line(PermFile, n_hid), Line(PermFileWW, n_note) >> ) @@
  ( <<n_dirA, n_sub>> :> << Line(PermFile, n_x), Line(PermDir, n_deep) >> ) @@
  ( <<n_dirA, n_sub, n_deep>> :> << >> )

\* a symbolic link line of 11 fields, an 11-character permission string, a
\* directory with a dot in its name and a directory the user may not enter
ScnWide ==
  ( <<>> :> << Line(PermLink, n_zlink) \o <<" ", "-", ">", " ", "a">>,
              Line(PermFileAcl, n_b),
              Line(PermDir, n_cd),
              Line(PermDirOwn, n_priv) >> ) @@
  ( <<n_cd>> :> << Line(PermFile, n_x) >> )

\* the "total 0" line many servers send first
ScnShort ==
  ( <<>> :> << <<"t","o","t","a","l"," ","0">>, Line(PermDir, n_dirA), Line(PermFile, n_x) >> ) @@
  ( <<n_dirA>> :> << >> )

\* an empty line in the listing
ScnEmpty ==
  ( <<>> :> << Line(PermFile, n_x), << >> >> )

\* scenario D of the specification: /pub with docs and readme.txt
ScnPub ==
  ( <<>> :> << Line(PermDir, n_dot), Line(PermDir, n_dotdot), Line(PermDir, n_pub) >> ) @@
  ( <<n_pub>> :> << Line(PermDir, n_dot), Line(PermDir, n_dotdot),
                    Line(PermDir, n_docs), Line(PermFile, n_readme) >> ) @@
  ( <<n_pub, n_docs>> :> << Line(PermDir, n_dot), Line(PermDir, n_dotdot),
                            Line(PermFile, n_f), Line(PermDir, n_sub) >> ) @@
  ( <<n_pub, n_docs, n_sub>> :> << Line(PermDir, n_dot), Line(PermDir, n_dotdot),
                                   Line(PermFile, n_g) >> )

\* scenario B of the specification: one directory and one file; the file
\* sorts last in B1, the directory sorts last in B2
ScnB1 ==
  ( <<>> :> << Line(PermFile, n_x), Line(PermDir, n_dirA) >> ) @@
  ( <<n_dirA>> :> << >> )

ScnB2 ==
  ( <<>> :> << Line(PermDir, n_dirA), Line(PermFile, n_b) >> ) @@
  ( <<n_dirA>> :> << >> )

\* listings that carry the entries '.' and '..', as LIST -a returns them
ScnDots ==
  ( <<>> :> << Line(PermDir, n_dot), Line(PermDir, n_dotdot),
              Line(PermDir, n_sub), Line(PermFile, n_note) >> ) @@
  ( <<n_sub>> :> << Line(PermDir, n_dot), Line(PermDir, n_dotdot), Line(PermFile, n_x) >> )

TreeScenarios == {"A", "Wide", "Short", "Empty", "B1", "B2", "Dots"}
GetScenarios == {"Pub"}

Remote(s) ==
  CASE s = "A" -> ScnA
    [] s = "Wide" -> ScnWide
    [] s = "Short" -> ScnShort
    [] s = "Empty" -> ScnEmpty
    [] s = "B1" -> ScnB1
    [] s = "B2" -> ScnB2
    [] s = "Dots" -> ScnDots
    [] s = "Pub" -> ScnPub

\* the server's resolution of a path argument against its current directory
RECURSIVE Walk(_, _)
Walk(at, comps) ==
  IF comps = <<>> THEN at
  ELSE IF Head(comps) = <<>> \/ Head(comps) = n_dot THEN Walk(at, Tail(comps))
  ELSE IF Head(comps) = n_dotdot
       THEN Walk(IF at = <<>> THEN at ELSE SubSeq(at, 1, Len(at) - 1), Tail(comps))
  ELSE Walk(Append(at, Head(comps)), Tail(comps))

Resolve(at, path) ==
  Walk(IF StartsWith(path, <<"/">>) THEN <<>> ELSE at, SplitOn(path, "/"))

\* the text the server returns for PWD
Pwd(at) == <<"/">> \o JoinWith(at, <<"/">>)

IsRemoteDir(s, p) == p \in DOMAIN Remote(s)

\* the regular files of the remote tree: the lines that start with '-'
IsRemoteFile(s, p) ==
  /\ p # <<>>
  /\ SubSeq(p, 1, Len(p) - 1) \in DOMAIN Remote(s)
  /\ \E i \in 1..Len(Remote(s)[SubSeq(p, 1, Len(p) - 1)]) :
        LET f == Split(Remote(s)[SubSeq(p, 1, Len(p) - 1)][i])
        IN  Len(f) >= 9 /\ f[1][1] = "-" /\ f[9] = Last(p)


(***************************************************************************)
(* State.                                                                  *)
(***************************************************************************)
VARIABLES
  cmd,        \* the subcommand: "list" or "get"
  args,       \* the parsed command line
  scn,        \* the remote tree the server holds
  srvCwd,     \* remote current directory of the connection
  faults,     \* failures the connection has injected so far
  reqs,       \* requests sent on the connection, in order
  out,        \* lines printed, in order
  stack,      \* call stack of ftp_tree / download_files, innermost last
  top,        \* position of main: "start", "connected", "running", "exit"
  exc,        \* the exception that reached main's handlers, "none" if none
  localDirs,  \* directories of the local file system
  localFiles, \* files written to the local file system
  ended       \* the download_files calls that have ended, in order

vars == <<cmd, args, scn, srvCwd, faults, reqs, out, stack, top, exc, localDirs, localFiles, ended>>

\* os.getcwd()
getcwd == <<"/", "w">>

Glyph(c) == <<c, "HBAR", "HBAR", " ">>

\* outcomes of one request: the connection may fail it with a permission
\* reply (ftplib.error_perm) or with any other error
Injected == IF faults < MaxFaults THEN {"perm", "err"} ELSE {}

\* ftp.cwd(path) issued at directory at: the possible results
CwdResults(at, path) ==
  (IF IsRemoteDir(scn, Resolve(at, path)) THEN {"ok"} ELSE {"perm"}) \cup Injected

Req(op, arg, at, res) == [op |-> op, arg |-> arg, at |-> at, res |-> res]

(***************************************************************************)
(* main, lines 163-188.                                                    *)
(***************************************************************************)
FailedLine(e) == << "Failed to connect or login to FTP server: ", e >>

\* an exception leaves every active call and is caught by main (line 187)
RaiseToMain(e, printed) ==
  /\ stack' = <<>>
  /\ exc' = e
  /\ top' = "exit"
  /\ out' = out \o printed \o << FailedLine(e) >>

\* lines 168-171: connect and login, which may fail
Connect ==
  /\ top = "start"
  /\ \E ok \in BOOLEAN :
       IF ok
       THEN /\ top' = "connected"
            /\ out' = Append(out, << "Connected to FTP at " >>)
            /\ exc' = exc
       ELSE /\ top' = "exit"
            /\ out' = Append(out, FailedLine("connect"))
            /\ exc' = "connect"
  /\ UNCHANGED <<cmd, args, scn, srvCwd, faults, reqs, stack, localDirs, localFiles, ended>>

TreeFrame(directory, indent, depth) ==
  [ fn |-> "ftp_tree", directory |-> directory, indent |-> indent,
    recursion_depth |-> depth, items |-> <<>>, index |-> 0, pc |-> "call",
    shown |-> <<>> ]

\* lines 173-176: the list subcommand calls ftp_tree
MainList ==
  /\ top = "connected"
  /\ cmd = "list"
  /\ top' = "running"
  /\ out' = Append(out, << "Directory listing:" >>)
  /\ stack' = << TreeFrame(args.directory, <<>>, args.recursion) >>
  /\ UNCHANGED <<cmd, args, scn, srvCwd, faults, reqs, exc, localDirs, localFiles, ended>>

\* line 184: the command returned, ftp.quit(); a failure of it is caught by
\* the handler of line 187
Quit ==
  /\ top = "running"
  /\ stack = <<>>
  /\ top' = "exit"
  /\ \E q \in {"ok"} \cup Injected :
       /\ reqs' = Append(reqs, Req("QUIT", <<>>, srvCwd, q))
       /\ IF q = "ok"
          THEN UNCHANGED <<out, exc, faults>>
          ELSE /\ exc' = "quit"
               /\ out' = Append(out, FailedLine("quit"))
               /\ faults' = faults + 1
  /\ UNCHANGED <<cmd, args, scn, srvCwd, stack, localDirs, localFiles, ended>>

\* lines 185-186: the user interrupts the run
Interrupt ==
  /\ top \in {"start", "connected", "running"}
  /\ top' = "exit"
  /\ exc' = "KeyboardInterrupt"
  /\ stack' = <<>>
  /\ out' = Append(out, << "Interrupted by user, exiting..." >>)
  /\ UNCHANGED <<cmd, args, scn, srvCwd, faults, reqs, localDirs, localFiles, ended>>

(***************************************************************************)
(* ftp_tree, lines 6-46.                                                   *)
(***************************************************************************)
Frame == stack[Len(stack)]
Pop == SubSeq(stack, 1, Len(stack) - 1)
SetTop(f) == [stack EXCEPT ![Len(stack)] = f]

\* the depth test with the bound off by one
DepthExhausted_OffByOne(depth) == depth # None /\ depth[1] < 0

\* line 7
DepthExhausted(depth) == depth # None /\ depth[1] < 1

\* line 12
list_command(show_hidden) == IF show_hidden THEN "LIST -a" ELSE "LIST"

\* the two handlers without the test of error_ignore
AccessLines_Always(kind, indent, directory) ==
  IF kind = "perm"
  THEN << indent \o Glyph("CORNER") \o <<"Access denied for listing directory: ">> \o directory >>
  ELSE << indent \o Glyph("CORNER") \o <<"Error accessing directory: ">> \o directory,
          indent \o Glyph("CORNER") \o <<"error">> >>

\* lines 14-22: what the two handlers print
AccessLines(kind, indent, directory) ==
  IF args.error_ignore THEN <<>>
  ELSE IF kind = "perm"
       THEN << indent \o Glyph("CORNER") \o <<"Access denied for listing directory: ">> \o directory >>
       ELSE << indent \o Glyph("CORNER") \o <<"Error accessing directory: ">> \o directory,
               indent \o Glyph("CORNER") \o <<"error">> >>

\* line 24
split_items(lines) == [i \in 1..Len(lines) |-> Split(lines[i])]

\* lines 7-26: the depth test, the directory change, the listing, the sort
TreeCall ==
  /\ top = "running"
  /\ stack # <<>>
  /\ Frame.fn = "ftp_tree"
  /\ Frame.pc = "call"
  /\ IF DepthExhausted(Frame.recursion_depth)
     THEN /\ stack' = Pop
          /\ UNCHANGED <<srvCwd, faults, reqs, out, top, exc>>
     ELSE \E c \in CwdResults(srvCwd, Frame.directory) :
            LET natural == IF IsRemoteDir(scn, Resolve(srvCwd, Frame.directory)) THEN "ok" ELSE "perm"
                r1 == Req("CWD", Frame.directory, srvCwd, c)
                dir == Resolve(srvCwd, Frame.directory)
            IN  IF c # "ok"
                THEN /\ stack' = Pop
                     /\ reqs' = Append(reqs, r1)
                     /\ out' = out \o AccessLines(c, Frame.indent, Frame.directory)
                     /\ faults' = IF c = natural THEN faults ELSE faults + 1
                     /\ UNCHANGED <<srvCwd, top, exc>>
                ELSE \E l \in {"ok"} \cup Injected :
                       LET r2 == Req(list_command(args.hidden), <<>>, dir, l)
                           raw == split_items(Remote(scn)[dir])
                       IN  /\ srvCwd' = dir
                           /\ reqs' = reqs \o <<r1, r2>>
                           /\ IF l # "ok"
                              THEN /\ stack' = Pop
                                   /\ out' = out \o AccessLines(l, Frame.indent, Frame.directory)
                                   /\ faults' = faults + 1
                                   /\ UNCHANGED <<top, exc>>
                              ELSE /\ faults' = faults
                                   /\ IF \E i \in 1..Len(raw) : raw[i] = <<>>
                                      THEN RaiseToMain("IndexError", <<>>)
                                      ELSE /\ stack' = SetTop([Frame EXCEPT !.items = sorted_items(raw),
                                                                            !.pc = "loop"])
                                           /\ UNCHANGED <<out, top, exc>>
  /\ UNCHANGED <<cmd, args, scn, localDirs, localFiles, ended>>

\* line 29
hidden_skip(name) == ~args.hidden /\ StartsWith(name, <<".">>)
\* line 31
only_dirs_skip(permissions) == args.only_dir /\ permissions[1] # "d"
\* line 33: permissions[-2]
world_writable_skip(permissions) == args.world_writable /\ permissions[Len(permissions) - 1] # "w"

\* line 35
short_name_of(name) == Last(SplitOn(name, "/"))

\* the line with the corner glyph whatever the position of the entry
tree_line_Corner(permissions, short_name, isLast) ==
  LET line == Glyph("CORNER") \o short_name
  IN  IF args.perms THEN permissions \o <<" ">> \o line ELSE line

\* lines 36-39
tree_line(permissions, short_name, isLast) ==
  LET line == Glyph(IF isLast THEN "CORNER" ELSE "TEE") \o short_name
  IN  IF args.perms THEN permissions \o <<" ">> \o line ELSE line

\* the test of line 41 without its first conjunct
descends_Dotted(permissions, short_name) ==
  permissions[1] = "d" /\ ~args.world_writable

\* line 41
descends(permissions, short_name) ==
  ~Contains(short_name, ".") /\ permissions[1] = "d" /\ ~args.world_writable

\* line 42
depth_allows(depth) == depth = None \/ depth[1] > 1

\* the continuation indent without the vertical bar
new_indent_of_Blank(indent, isLast) == indent \o <<" ", " ", " ", " ">>

\* line 43
new_indent_of(indent, isLast) ==
  indent \o (IF isLast THEN <<" ", " ", " ", " ">> ELSE <<"VBAR", " ", " ", " ">>)

\* the child call is given the directory of its parent
new_dir_of_Same(directory, short_name) == directory

\* line 44
new_dir_of(directory, short_name) ==
  IF directory # <<"/">> THEN directory \o <<"/">> \o short_name ELSE <<"/">> \o short_name

\* line 45
new_depth_of(depth) == IF depth = None THEN None ELSE Some(depth[1] - 1)

\* lines 27-46: one iteration of the loop over the sorted items
TreeItem ==
  /\ top = "running"
  /\ stack # <<>>
  /\ Frame.fn = "ftp_tree"
  /\ Frame.pc = "loop"
  /\ Frame.index < Len(Frame.items)
  /\ LET item == Frame.items[Frame.index + 1]
         isLast == Frame.index = Len(Frame.items) - 1
         next == [Frame EXCEPT !.index = Frame.index + 1]
         printed == [next EXCEPT !.shown = Append(Frame.shown, item[9])]
     IN  IF Len(item) < 9
         THEN RaiseToMain("ValueError", <<>>)
         ELSE LET permissions == item[1]
                  name == item[9]
                  short_name == short_name_of(name)
              IN  IF hidden_skip(name) \/ only_dirs_skip(permissions)
                  THEN /\ stack' = SetTop(next)
                       /\ UNCHANGED <<out, top, exc>>
                  ELSE IF args.world_writable /\ Len(permissions) < 2
                  THEN RaiseToMain("IndexError", <<>>)
                  ELSE IF world_writable_skip(permissions)
                  THEN /\ stack' = SetTop(next)
                       /\ UNCHANGED <<out, top, exc>>
                  ELSE /\ out' = Append(out, Frame.indent \o tree_line(permissions, short_name, isLast))
                       /\ stack' = IF descends(permissions, short_name) /\ depth_allows(Frame.recursion_depth)
                                   THEN Append(SetTop(printed),
                                               TreeFrame(new_dir_of(Frame.directory, short_name),
                                                         new_indent_of(Frame.indent, isLast),
                                                         new_depth_of(Frame.recursion_depth)))
                                   ELSE SetTop(printed)
                       /\ UNCHANGED <<top, exc>>
  /\ UNCHANGED <<cmd, args, scn, srvCwd, faults, reqs, localDirs, localFiles, ended>>

\* the loop of line 27 is exhausted: ftp_tree returns
TreeReturn ==
  /\ top = "running"
  /\ stack # <<>>
  /\ Frame.fn = "ftp_tree"
  /\ Frame.pc = "loop"
  /\ Frame.index = Len(Frame.items)
  /\ stack' = Pop
  /\ UNCHANGED <<cmd, args, scn, srvCwd, faults, reqs, out, top, exc, localDirs, localFiles, ended>>

(***************************************************************************)
(* The list subcommand.                                                    *)
(***************************************************************************)
ListArgs ==
  [ directory : { <<"/">>, <<"/">> \o n_dirA },
    recursion : {None} \cup { Some(n) : n \in 0..MaxRecursion },
    perms : BOOLEAN, hidden : BOOLEAN, error_ignore : BOOLEAN,
    only_dir : BOOLEAN, world_writable : BOOLEAN ]

InitList ==
  /\ cmd = "list"
  /\ scn \in TreeScenarios
  /\ args \in ListArgs
  /\ args.directory = <<"/">> \/ scn = "A"
  /\ srvCwd = <<>>
  /\ faults = 0
  /\ reqs = <<>>
  /\ out = <<>>
  /\ stack = <<>>
  /\ top = "start"
  /\ exc = "none"
  /\ localDirs = { <<"/">>, getcwd }
  /\ localFiles = {}
  /\ ended = <<>>

NextList == Connect \/ MainList \/ TreeCall \/ TreeItem \/ TreeReturn \/ Quit \/ Interrupt

SpecList == InitList /\ [][NextList]_vars


(***************************************************************************)
(* download_files, lines 68-112.                                           *)
(***************************************************************************)
DlFrame(pattern) ==
  [ fn |-> "download_files", pattern |-> pattern, base_directory |-> <<>>,
    wildcard |-> basename(pattern), directory |-> dirname(pattern),
    items |-> <<>>, index |-> 0, pc |-> "enter" ]

\* lines 180-182: the get subcommand calls download_files
MainGet ==
  /\ top = "connected"
  /\ cmd = "get"
  /\ top' = "running"
  /\ out' = Append(out, << "Downloading files..." >>)
  /\ stack' = << DlFrame(args.file) >>
  /\ UNCHANGED <<cmd, args, scn, srvCwd, faults, reqs, exc, localDirs, localFiles, ended>>

Ended(f, how, at) ==
  [ pattern |-> f.pattern, base |-> f.base_directory, how |-> how, after |-> Pwd(at) ]

\* the calls of the stack, innermost first, all left by an exception
RECURSIVE Unwound(_, _)
Unwound(st, at) ==
  IF st = <<>> THEN <<>>
  ELSE << Ended(Last(st), "raised", at) >> \o Unwound(SubSeq(st, 1, Len(st) - 1), at)

\* an exception that no handler of download_files catches: it leaves every
\* active call (none restores the directory) and reaches main
DlRaise(e, at, rs) ==
  /\ RaiseToMain(e, <<>>)
  /\ ended' = ended \o Unwound(stack, at)
  /\ srvCwd' = at
  /\ reqs' = reqs \o rs

\* download_files returns to its caller
DlReturns(at, rs, printed) ==
  /\ stack' = Pop
  /\ ended' = Append(ended, Ended(Frame, "returned", at))
  /\ srvCwd' = at
  /\ reqs' = reqs \o rs
  /\ out' = out \o printed
  /\ UNCHANGED <<top, exc>>

InDownload(pc) ==
  /\ top = "running"
  /\ stack # <<>>
  /\ Frame.fn = "download_files"
  /\ Frame.pc = pc

Natural(isOk) == IF isOk THEN "ok" ELSE "perm"

\* the name ftplib gives a failed reply
ErrName(r) == IF r = "perm" THEN "error_perm" ELSE "error"

\* lines 69-84: record the directory, split the pattern, enter the directory part
DlEnter ==
  /\ InDownload("enter")
  /\ \E p \in {"ok"} \cup Injected :
       LET r0 == Req("PWD", <<>>, srvCwd, p)
           base == Pwd(srvCwd)
           f == [Frame EXCEPT !.base_directory = base]
       IN  IF p # "ok"
           THEN /\ DlRaise(ErrName(p), srvCwd, <<r0>>)
                /\ faults' = faults + 1
           ELSE IF f.directory = <<>>
           THEN /\ stack' = SetTop([f EXCEPT !.pc = "list"])
                /\ reqs' = Append(reqs, r0)
                /\ UNCHANGED <<srvCwd, faults, out, top, exc, ended>>
           ELSE \E c \in CwdResults(srvCwd, f.directory) :
                  LET r1 == Req("CWD", f.directory, srvCwd, c)
                      to == Resolve(srvCwd, f.directory)
                  IN  /\ reqs' = reqs \o <<r0, r1>>
                      /\ faults' = IF c = Natural(IsRemoteDir(scn, to)) THEN faults ELSE faults + 1
                      /\ UNCHANGED <<top, exc, ended>>
                      /\ IF c = "ok"
                         THEN /\ srvCwd' = to
                              /\ stack' = SetTop([f EXCEPT !.pc = "list"])
                              /\ out' = out
                         ELSE /\ srvCwd' = srvCwd
                              /\ stack' = SetTop([f EXCEPT !.pc = "abort"])
                              /\ out' = Append(out,
                                   IF c = "perm"
                                   THEN <<"Permission denied for directory: ">> \o f.directory
                                   ELSE <<"Error accessing directory ">> \o f.directory \o <<": error">>)
  /\ UNCHANGED <<cmd, args, scn, localDirs, localFiles>>

\* lines 79-80 and 83-84: back to the recorded directory, return []
DlAbort ==
  /\ InDownload("abort")
  /\ \E c \in {"ok"} \cup Injected :
       LET r == Req("CWD", Frame.base_directory, srvCwd, c)
       IN  IF c = "ok"
           THEN /\ DlReturns(Resolve(srvCwd, Frame.base_directory), <<r>>, <<>>)
                /\ faults' = faults
           ELSE /\ DlRaise(ErrName(c), srvCwd, <<r>>)
                /\ faults' = faults + 1
  /\ UNCHANGED <<cmd, args, scn, localDirs, localFiles>>

\* line 87: the name of a line is its last field
RECURSIVE last_fields(_)
last_fields(lines) ==
  IF lines = <<>> THEN <<>> ELSE << Last(Split(Head(lines))) >> \o last_fields(Tail(lines))

\* lines 86-87: list the current directory
DlList ==
  /\ InDownload("list")
  /\ \E l \in {"ok"} \cup Injected :
       LET r == Req("LIST -a", <<>>, srvCwd, l)
           lines == Remote(scn)[srvCwd]
       IN  IF l # "ok"
           THEN /\ DlRaise(ErrName(l), srvCwd, <<r>>)
                /\ faults' = faults + 1
           ELSE IF \E i \in 1..Len(lines) : Split(lines[i]) = <<>>
           THEN /\ DlRaise("IndexError", srvCwd, <<r>>)
                /\ faults' = faults
           ELSE /\ stack' = SetTop([Frame EXCEPT !.items = last_fields(lines), !.pc = "loop"])
                /\ reqs' = Append(reqs, r)
                /\ UNCHANGED <<srvCwd, faults, out, top, exc, ended>>
  /\ UNCHANGED <<cmd, args, scn, localDirs, localFiles>>

\* line 102
dir_matches(item, wildcard) == wildcard = <<"*">> \/ item = wildcard
\* line 106
file_matches(item, wildcard) == wildcard = <<"*">> \/ fnmatch(item, wildcard)
\* line 103
local_dir_of(item) == join2(getcwd, item)
\* line 105
sub_pattern(directory, item) == join3(directory, item, <<"*">>)
\* line 107
local_path_of(directory, item) ==
  IF directory # <<>> THEN join3(getcwd, directory, item) ELSE join2(getcwd, item)

\* os.makedirs(path, exist_ok=True): the path and every missing ancestor
RECURSIVE makedirs(_, _)
makedirs(dirs, path) ==
  IF path \in dirs \/ path = <<>> THEN dirs
  ELSE makedirs(dirs, dirname(path)) \cup {path}

\* open(path, 'wb') succeeds when the parent directory exists and the path
\* is not a directory
can_open(path) == dirname(path) \in localDirs /\ path \notin localDirs

\* lines 90-110: one iteration of the loop over the listed names
DlItem ==
  /\ InDownload("loop")
  /\ Frame.index < Len(Frame.items)
  /\ LET item == Frame.items[Frame.index + 1]
         next == [Frame EXCEPT !.index = Frame.index + 1]
         into == Resolve(srvCwd, item)
         back == Resolve(into, n_dotdot)
     IN  IF item \in {n_dot, n_dotdot}
         THEN /\ stack' = SetTop(next)
              /\ UNCHANGED <<srvCwd, faults, reqs, out, top, exc, localDirs, localFiles, ended>>
         ELSE \E c1 \in CwdResults(srvCwd, item) :
              \E c2 \in IF c1 = "ok"
                        THEN {"ok"} \cup (IF c1 = Natural(IsRemoteDir(scn, into)) THEN Injected ELSE {})
                        ELSE {"none"} :
                LET spent1 == IF c1 = Natural(IsRemoteDir(scn, into)) THEN 0 ELSE 1
                    spent2 == IF c2 \in {"ok", "none"} THEN 0 ELSE 1
                    left == faults + spent1 + spent2
                    r1 == Req("CWD", item, srvCwd, c1)
                    r2 == Req("CWD", n_dotdot, into, c2)
                    probes == IF c1 = "ok" THEN <<r1, r2>> ELSE <<r1>>
                    at == IF c1 # "ok" THEN srvCwd ELSE IF c2 = "ok" THEN back ELSE into
                    caught == c1 = "perm" \/ c2 = "perm"
                    item_type == IF caught THEN "file" ELSE "directory"
                IN  IF c1 = "err" \/ c2 = "err"
                    THEN /\ DlRaise("error", at, probes)
                         /\ faults' = left
                         /\ UNCHANGED <<localDirs, localFiles>>
                    ELSE IF item_type = "directory" /\ dir_matches(item, Frame.wildcard)
                    THEN IF local_dir_of(item) \in localFiles
                         THEN /\ DlRaise("OSError", at, probes)
                              /\ faults' = left
                              /\ UNCHANGED <<localDirs, localFiles>>
                         ELSE /\ localDirs' = makedirs(localDirs, local_dir_of(item))
                              /\ stack' = Append(SetTop(next), DlFrame(sub_pattern(Frame.directory, item)))
                              /\ srvCwd' = at
                              /\ reqs' = reqs \o probes
                              /\ faults' = left
                              /\ UNCHANGED <<out, top, exc, localFiles, ended>>
                    ELSE IF item_type = "file" /\ file_matches(item, Frame.wildcard)
                    THEN LET local_path == local_path_of(Frame.directory, item)
                         IN  IF ~can_open(local_path)
                             THEN /\ DlRaise("OSError", at, probes)
                                  /\ faults' = left
                                  /\ UNCHANGED <<localDirs, localFiles>>
                             ELSE \E r \in {Natural(IsRemoteFile(scn, Resolve(at, item)))}
                                           \cup (IF left < MaxFaults THEN {"perm", "err"} ELSE {}) :
                                    LET r3 == Req("RETR", item, at, r)
                                    IN  /\ localFiles' = localFiles \cup {local_path}
                                        /\ UNCHANGED localDirs
                                        /\ IF r = "ok"
                                           THEN /\ stack' = SetTop(next)
                                                /\ srvCwd' = at
                                                /\ reqs' = reqs \o probes \o <<r3>>
                                                /\ out' = Append(out, <<"Downloaded ">> \o local_path)
                                                /\ faults' = left
                                                /\ UNCHANGED <<top, exc, ended>>
                                           ELSE /\ DlRaise(ErrName(r), at, probes \o <<r3>>)
                                                /\ faults' = IF r = Natural(IsRemoteFile(scn, Resolve(at, item)))
                                                             THEN left ELSE left + 1
                    ELSE /\ stack' = SetTop(next)
                         /\ srvCwd' = at
                         /\ reqs' = reqs \o probes
                         /\ faults' = left
                         /\ UNCHANGED <<out, top, exc, localDirs, localFiles, ended>>
  /\ UNCHANGED <<cmd, args, scn>>

\* line 112: back to the recorded directory, then return
DlReturn ==
  /\ InDownload("loop")
  /\ Frame.index = Len(Frame.items)
  /\ \E c \in {"ok"} \cup Injected :
       LET r == Req("CWD", Frame.base_directory, srvCwd, c)
       IN  IF c = "ok"
           THEN /\ DlReturns(Resolve(srvCwd, Frame.base_directory), <<r>>, <<>>)
                /\ faults' = faults
           ELSE /\ DlRaise(ErrName(c), srvCwd, <<r>>)
                /\ faults' = faults + 1
  /\ UNCHANGED <<cmd, args, scn, localDirs, localFiles>>

(***************************************************************************)
(* The get subcommand.                                                     *)
(***************************************************************************)
Patterns ==
  { <<"*">>,
    <<"/">> \o n_pub \o <<"/", "*">>,
    n_pub \o <<"/", "*">>,
    <<"/">> \o n_pub \o <<"/">> \o n_docs,
    <<"/">> \o n_pub \o <<"/", "r", "e", "*">>,
    <<"/">> \o n_priv \o <<"/", "*">> }

InitGet ==
  /\ cmd = "get"
  /\ scn \in GetScenarios
  /\ args \in [ file : Patterns ]
  /\ srvCwd \in { <<>>, <<n_pub>> }
  /\ faults = 0
  /\ reqs = <<>>
  /\ out = <<>>
  /\ stack = <<>>
  /\ top = "start"
  /\ exc = "none"
  /\ localDirs \in { { <<"/">>, getcwd }, { <<"/">>, getcwd, <<"/">> \o n_pub } }
  /\ localFiles = {}
  /\ ended = <<>>

NextGet == Connect \/ MainGet \/ DlEnter \/ DlAbort \/ DlList \/ DlItem \/ DlReturn \/ Quit \/ Interrupt

SpecGet == InitGet /\ [][NextGet]_vars


(***************************************************************************)
(* Observations used by the properties.                                    *)
(***************************************************************************)
\* the run ended without a connect failure and without an interruption
RunEnded == top = "exit" /\ exc \notin {"connect", "KeyboardInterrupt", "quit"}

\* the remote directories and regular files at or below root
DirsUnder(root) == { d \in DOMAIN Remote(scn) : Len(d) >= Len(root) /\ SubSeq(d, 1, Len(root)) = root }
FilesUnder(root) ==
  UNION { { Append(d, Split(Remote(scn)[d][i])[9]) :
              i \in { j \in 1..Len(Remote(scn)[d]) :
                        /\ Len(Split(Remote(scn)[d][j])) >= 9
                        /\ Split(Remote(scn)[d][j])[1][1] = "-" } } : d \in DirsUnder(root) }

\* the remote files retrieved and the remote directories listed so far
Retrieved == { Resolve(reqs[i].at, reqs[i].arg) : i \in { j \in 1..Len(reqs) : reqs[j].op = "RETR" /\ reqs[j].res = "ok" } }
Listed == { reqs[i].at : i \in { j \in 1..Len(reqs) : reqs[j].op \in {"LIST", "LIST -a"} /\ reqs[j].res = "ok" } }

\* the outermost download_files call, once it has ended
OuterCall == ended[Len(ended)]
OuterEnded == cmd = "get" /\ RunEnded /\ ended # <<>> /\ ended[Len(ended)].pattern = args.file

(***************************************************************************)
(* Properties of download_files.                                           *)
(***************************************************************************)
\* C1 (as claimed): whenever a download_files call has ended, by returning or
\* because a failed listing, probe, retrieve or directory change ended it, the
\* remote current directory is the one ftp.pwd() returned when it was entered.
C1_RestoredAfterEveryCall ==
  \A i \in 1..Len(ended) : ended[i].base # <<>> => ended[i].after = ended[i].base

\* C2 (as claimed): no failure raised by the connection during a walk or a
\* download reaches the top level; only connect/login failure and user
\* interruption do.
C2_ConnectionFailuresAbsorbed ==
  ~ ( /\ exc \in {"error_perm", "error"}
      /\ reqs # <<>>
      /\ reqs[Len(reqs)].op \in {"CWD", "LIST", "LIST -a", "RETR"}
      /\ reqs[Len(reqs)].res # "ok" )

\* C3 (as claimed): with wildcard "*", a directory part that exists and no
\* failing operation, a download that has returned has retrieved every file
\* and listed every directory of the subtree, at every depth.
C3_WildcardComplete ==
  ( /\ OuterEnded
    /\ OuterCall.how = "returned"
    /\ faults = 0
    /\ basename(args.file) = <<"*">>
    /\ IsRemoteDir(scn, Resolve(Resolve(<<>>, OuterCall.base), dirname(args.file))) )
  => LET root == Resolve(Resolve(<<>>, OuterCall.base), dirname(args.file))
     IN  /\ FilesUnder(root) \subseteq Retrieved
         /\ DirsUnder(root) \subseteq Listed

\* C4 (as claimed): get -f /pub/* creates local directory docs and writes
\* readme.txt under the local working directory and the files of remote docs
\* under docs/; every file written lies inside the local working directory.
C4_LocalMirror ==
  ( /\ cmd = "get"
    /\ RunEnded
    /\ faults = 0
    /\ args.file = <<"/">> \o n_pub \o <<"/", "*">> )
  => /\ join2(getcwd, n_docs) \in localDirs
     /\ join2(getcwd, n_readme) \in localFiles
     /\ join3(getcwd, n_docs, n_f) \in localFiles
     /\ \A p \in localFiles : StartsWith(p, getcwd \o <<"/">>)


(***************************************************************************)
(* Properties of ftp_tree.                                                 *)
(***************************************************************************)
MainMessages ==
  { "Connected to FTP at ", "Directory listing:", "Downloading files...",
    "Interrupted by user, exiting...", "Failed to connect or login to FTP server: " }

IsTreeLine(l) == l[1] \notin MainMessages

\* what ftp_tree has printed, in order
TreeOut == SelectSeq(out, IsTreeLine)

\* the directory the walk starts in
StartDir == Resolve(<<>>, args.directory)

IsListReq(r) == r.op \in {"LIST", "LIST -a"}
IsCwdReq(r) == r.op = "CWD"
Count(P(_)) == Cardinality({ i \in 1..Len(reqs) : P(reqs[i]) })

\* the lines a complete walk of one directory prints for its own entries
RECURSIVE OwnLines(_, _, _)
OwnLines(items, k, indent) ==
  IF k > Len(items) THEN <<>>
  ELSE LET item == items[k]
           rest == OwnLines(items, k + 1, indent)
       IN  IF hidden_skip(item[9]) \/ only_dirs_skip(item[1]) \/ world_writable_skip(item[1])
           THEN rest
           ELSE << indent \o tree_line(item[1], short_name_of(item[9]), k = Len(items)) >> \o rest

IsDiagnostic(l) ==
  \E i \in 1..Len(l) : l[i] \in {"Access denied for listing directory: ", "Error accessing directory: ", "error"}

WellFormedListing(dir) ==
  \A i \in 1..Len(Remote(scn)[dir]) : Len(Split(Remote(scn)[dir][i])) >= 9

C6_MalformedSkipped ==
  ( /\ cmd = "list" /\ RunEnded /\ faults = 0
    /\ IsRemoteDir(scn, StartDir)
    /\ args.recursion # Some(0)
    /\ ~WellFormedListing(StartDir) )
  => /\ exc = "none"
     /\ \A i \in 1..Len(Remote(scn)[StartDir]) :
          LET f == Split(Remote(scn)[StartDir][i])
          IN  ( /\ Len(f) >= 9
                /\ ~hidden_skip(f[9]) /\ ~only_dirs_skip(f[1]) /\ ~world_writable_skip(f[1]) )
              => \E k \in 1..Len(TreeOut) : EndsWith(TreeOut[k], short_name_of(f[9]))

\* the names one call has printed are in non-decreasing order
Ordered(names) ==
  \A i \in 1..Len(names) : \A j \in i..Len(names) : StrLeq(names[i], names[j])

\* C7 (as claimed): the entries ftp_tree renders for one directory appear in
\* non-decreasing lexicographic order of their name field (field 8).
C7_SortedByName ==
  \A k \in 1..Len(stack) : stack[k].fn = "ftp_tree" => Ordered(stack[k].shown)

InShown(f, name) == \E i \in 1..Len(f.shown) : f.shown[i] = name

\* C8 (as claimed): for a processed line of 9 or more fields whose permission
\* string has 10 or more characters, the world-writable filter keeps the
\* entry iff character 8 of the permission string is 'w', and the
\* only-directories filter keeps it iff character 0 is 'd'.
C8_PermissionFlags ==
  \A k \in 1..Len(stack) :
    (stack[k].fn = "ftp_tree" /\ stack[k].pc = "loop") =>
      \A i \in 1..stack[k].index :
        LET item == stack[k].items[i]
        IN  (Len(item) >= 9 /\ Len(item[1]) >= 10 /\ ~hidden_skip(item[9])) =>
              /\ (args.world_writable /\ ~only_dirs_skip(item[1])) =>
                   (InShown(stack[k], item[9]) <=> item[1][9] = "w")
              /\ (args.only_dir /\ ~args.world_writable) =>
                   (InShown(stack[k], item[9]) <=> item[1][1] = "d")

\* the three filters as the specification defines them
PassesHidden(name) == args.hidden \/ ~StartsWith(name, <<".">>)
PassesOnlyDir(perm) == ~args.only_dir \/ perm[1] = "d"
PassesWorldWritable(perm) == ~args.world_writable \/ perm[9] = "w"
PassesAll(item) == PassesHidden(item[9]) /\ PassesOnlyDir(item[1]) /\ PassesWorldWritable(item[1])

\* C9 (as claimed): an entry is printed iff it passes the hidden filter, the
\* only-directories filter and the world-writable filter; an entry that is
\* not printed is never recursed into.
C9_FilterComposition ==
  /\ \A k \in 1..Len(stack) :
       (stack[k].fn = "ftp_tree" /\ stack[k].pc = "loop") =>
         /\ \A i \in 1..stack[k].index :
              LET item == stack[k].items[i]
              IN  (Len(item) >= 9 /\ Len(item[1]) >= 10) =>
                    (InShown(stack[k], item[9]) <=> PassesAll(item))
         /\ (k < Len(stack)) =>
              /\ stack[k].index >= 1
              /\ InShown(stack[k], stack[k].items[stack[k].index][9])
  /\ (cmd = "list" /\ RunEnded /\ faults = 0 /\ IsRemoteDir(scn, StartDir) /\ args.recursion # Some(0)) =>
       \A i \in 1..Len(Remote(scn)[StartDir]) :
         LET f == Split(Remote(scn)[StartDir][i])
         IN  (Len(f) >= 9 /\ Len(f[1]) >= 10 /\ PassesAll(f)) =>
               \E k \in 1..Len(TreeOut) : EndsWith(TreeOut[k], short_name_of(f[9]))

\* scenario A with the default options, walked to the end without a failure
ScenarioADone ==
  /\ cmd = "list" /\ scn = "A"
  /\ args = [ directory |-> <<"/">>, recursion |-> None, perms |-> FALSE, hidden |-> FALSE,
              error_ignore |-> FALSE, only_dir |-> FALSE, world_writable |-> FALSE ]
  /\ top = "exit" /\ exc = "none" /\ faults = 0

\* C10 (as claimed): list on / prints the line of dirA and then the line of
\* file.txt, which carries the corner glyph, and after these two lines the
\* children of dirA, each under an indent of four spaces.
C10_TwoLinesThenChildren ==
  ScenarioADone =>
    /\ Len(TreeOut) >= 2
    /\ TreeOut[1] = Glyph("TEE") \o n_dirA
    /\ TreeOut[2] = Glyph("CORNER") \o n_filetxt
    /\ \A k \in 3..Len(TreeOut) : StartsWith(TreeOut[k], <<" ", " ", " ", " ">>)

\* C10 (amended): list on / prints the line of dirA first, with the tee
\* glyph, then at once the subtree of dirA, every line of it under the
\* indent "VBAR + three spaces" because dirA is not the last entry, and
\* prints the line of file.txt last, with the corner glyph.
C10_DepthFirstOrder ==
  ScenarioADone =>
    /\ Len(TreeOut) >= 2
    /\ TreeOut[1] = Glyph("TEE") \o n_dirA
    /\ TreeOut[Len(TreeOut)] = Glyph("CORNER") \o n_filetxt
    /\ \A k \in 2..(Len(TreeOut) - 1) : StartsWith(TreeOut[k], <<"VBAR", " ", " ", " ">>)
    /\ SubSeq(TreeOut, 2, 3) =
         << <<"VBAR", " ", " ", " ">> \o Glyph("TEE") \o n_note,
            <<"VBAR", " ", " ", " ">> \o Glyph("CORNER") \o n_sub >>

\* C10 witness: the walk of scenario A has ended and printed children of dirA
\* between the two lines of the root.
C10_Witness == ScenarioADone /\ Len(TreeOut) > 2

\* list --only-dir on / of scenario B has walked to the end without a failure
ScenarioBDone ==
  /\ cmd = "list" /\ scn \in {"B1", "B2"}
  /\ args.only_dir /\ ~args.world_writable /\ args.recursion # Some(0)
  /\ top = "exit" /\ exc = "none" /\ faults = 0

\* the one line of the directory of scenario B, with the given glyph
DirLineB(glyph) ==
  (IF args.perms THEN PermDir \o <<" ">> ELSE <<>>) \o Glyph(glyph) \o n_dirA

\* the name of the one regular file of the root listing
FileNameB ==
  LET i == CHOOSE j \in 1..Len(Remote(scn)[<<>>]) : Split(Remote(scn)[<<>>][j])[1][1] = "-"
  IN  Split(Remote(scn)[<<>>][i])[9]

\* C11 (as claimed): list --only-dir on a directory with one directory and
\* one file prints only the directory line, and that line carries the corner
\* glyph whichever of the two names sorts last.
C11_CornerWhateverTheNames ==
  ScenarioBDone => TreeOut = << DirLineB("CORNER") >>

\* C11 (amended): list --only-dir prints only the directory line; the line
\* carries the corner glyph when the directory's name sorts after the file's
\* and the tee glyph when the file's name sorts last, because the glyph is
\* chosen by the position in the unfiltered sorted listing.
C11_GlyphFromUnfilteredPosition ==
  ScenarioBDone =>
    TreeOut = << DirLineB(IF StrLess(FileNameB, n_dirA) THEN "CORNER" ELSE "TEE") >>

\* C11 witness: the walk of the listing whose file sorts last has ended and
\* printed the directory line with the tee glyph.
C11_Witness ==
  ScenarioBDone /\ scn = "B1" /\ TreeOut = << DirLineB("TEE") >>

\* the directory changes and listings of the walk that failed in the given way
WalkFailures(kind) ==
  Cardinality({ i \in 1..Len(reqs) : (IsCwdReq(reqs[i]) \/ IsListReq(reqs[i])) /\ reqs[i].res = kind })

\* the printed lines that carry the given message
LinesWith(msg) ==
  Cardinality({ i \in 1..Len(out) : \E j \in 1..Len(out[i]) : out[i][j] = msg })

\* a step of the walk in which the directory change or the listing fails
WalkFailureStep ==
  /\ cmd = "list"
  /\ Len(reqs') > Len(reqs)
  /\ (IsCwdReq(reqs'[Len(reqs')]) \/ IsListReq(reqs'[Len(reqs')]))
  /\ reqs'[Len(reqs')].res # "ok"

\* C12: when changing into or listing a directory fails during ftp_tree, no
\* exception leaves the call, one diagnostic per failure is printed iff
\* error_ignore is false (none when it is true), and the failing call alone
\* returns: its callers keep their positions, so the walk goes on with the
\* remaining siblings of the directory.
C12_PerNodeFailure ==
  /\ [] ( cmd = "list" =>
           /\ exc \notin {"error_perm", "error"}
           /\ LinesWith("Access denied for listing directory: ")
                = (IF args.error_ignore THEN 0 ELSE WalkFailures("perm"))
           /\ LinesWith("Error accessing directory: ")
                = (IF args.error_ignore THEN 0 ELSE WalkFailures("err")) )
  /\ [][ WalkFailureStep =>
           /\ stack # <<>>
           /\ stack' = SubSeq(stack, 1, Len(stack) - 1)
           /\ top' = "running"
           /\ exc' = "none" ]_vars

\* C12 witness: the change into dirA of scenario A was refused, the
\* diagnostic was printed, and the walk went on to print file.txt and ended.
C12_Witness ==
  /\ cmd = "list" /\ scn = "A" /\ ~args.error_ignore /\ args.directory = <<"/">>
  /\ top = "exit" /\ exc = "none"
  /\ \E i \in 1..Len(reqs) : reqs[i].op = "CWD" /\ reqs[i].arg = <<"/">> \o n_dirA /\ reqs[i].res = "perm"
  /\ LinesWith("Access denied for listing directory: ") = 1
  /\ \E k \in 1..Len(TreeOut) : EndsWith(TreeOut[k], n_filetxt)

(***************************************************************************)
(* cat_file, lines 54-66.                                                  *)
(***************************************************************************)
\* the lines of a remote regular file
FileLines == << <<"a">>, <<"b">> >>

CatFrame(filepath) ==
  [ fn |-> "cat_file", filepath |-> filepath, sent |-> 0,
    pc |-> IF args.perms THEN "probe" ELSE "retr" ]

\* lines 177-179: the cat subcommand calls cat_file
MainCat ==
  /\ top = "connected"
  /\ cmd = "cat"
  /\ top' = "running"
  /\ out' = Append(out, << "File content:" >>)
  /\ stack' = << CatFrame(args.file) >>
  /\ UNCHANGED <<cmd, args, scn, srvCwd, faults, reqs, exc, localDirs, localFiles, ended>>

InCat(pc) ==
  /\ top = "running"
  /\ stack # <<>>
  /\ Frame.fn = "cat_file"
  /\ Frame.pc = pc

\* the handler without the test of error_ignore
CatErrorLines_Always(filepath, e) ==
  << <<"Error reading file ">> \o filepath \o <<": ", e>> >>

\* lines 64-66: what the handler prints
CatErrorLines(filepath, e) ==
  IF args.error_ignore THEN <<>>
  ELSE << <<"Error reading file ">> \o filepath \o <<": ", e>> >>

\* lines 64-66: the failure is caught, cat_file returns
CatCaught(e) ==
  /\ stack' = Pop
  /\ out' = out \o CatErrorLines(Frame.filepath, e)
  /\ UNCHANGED <<top, exc>>

\* the server's answer to LIST <path>: the line of a file, the lines of a
\* directory, nothing for a path that does not exist
ScopedListing(at, path) ==
  LET p == Resolve(at, path)
  IN  IF IsRemoteDir(scn, p) THEN Remote(scn)[p]
      ELSE IF IsRemoteFile(scn, p)
      THEN LET lines == Remote(scn)[SubSeq(p, 1, Len(p) - 1)]
               i == CHOOSE j \in 1..Len(lines) :
                      Len(Split(lines[j])) >= 9 /\ Split(lines[j])[9] = Last(p)
           IN  << lines[i] >>
      ELSE <<>>

\* lines 56-62: the permissions probe
CatProbe ==
  /\ InCat("probe")
  /\ \E c \in CwdResults(srvCwd, <<"/">>) :
       LET r1 == Req("CWD", <<"/">>, srvCwd, c)
       IN  IF c # "ok"
           THEN /\ CatCaught(ErrName(c))
                /\ reqs' = Append(reqs, r1)
                /\ faults' = faults + 1
                /\ UNCHANGED srvCwd
           ELSE \E l \in {"ok"} \cup Injected :
                  LET r2 == Req("LIST", Frame.filepath, <<>>, l)
                      items == ScopedListing(<<>>, Frame.filepath)
                  IN  /\ srvCwd' = <<>>
                      /\ reqs' = reqs \o <<r1, r2>>
                      /\ IF l # "ok"
                         THEN /\ CatCaught(ErrName(l))
                              /\ faults' = faults + 1
                         ELSE /\ faults' = faults
                              /\ IF items = <<>>
                                 THEN /\ stack' = SetTop([Frame EXCEPT !.pc = "retr"])
                                      /\ UNCHANGED <<out, top, exc>>
                                 ELSE IF Split(items[1]) = <<>>
                                 THEN CatCaught("IndexError")
                                 ELSE /\ stack' = SetTop([Frame EXCEPT !.pc = "retr"])
                                      /\ out' = Append(out, <<"Permissions: ">> \o Split(items[1])[1])
                                      /\ UNCHANGED <<top, exc>>
  /\ UNCHANGED <<cmd, args, scn, localDirs, localFiles, ended>>

\* line 63: the RETR request is sent
CatRetr ==
  /\ InCat("retr")
  /\ \E r \in {Natural(IsRemoteFile(scn, Resolve(srvCwd, Frame.filepath)))} \cup Injected :
       /\ reqs' = Append(reqs, Req("RETR", Frame.filepath, srvCwd, r))
       /\ IF r = "ok"
          THEN /\ stack' = SetTop([Frame EXCEPT !.pc = "lines"])
               /\ UNCHANGED <<out, top, exc, faults>>
          ELSE /\ CatCaught(ErrName(r))
               /\ faults' = IF r = Natural(IsRemoteFile(scn, Resolve(srvCwd, Frame.filepath)))
                            THEN faults ELSE faults + 1
  /\ UNCHANGED <<cmd, args, scn, srvCwd, localDirs, localFiles, ended>>

\* line 63: the next line arrives and is printed, or the transfer breaks
CatLine ==
  /\ InCat("lines")
  /\ Frame.sent < Len(FileLines)
  /\ \E d \in {"ok"} \cup Injected :
       IF d = "ok"
       THEN /\ out' = Append(out, FileLines[Frame.sent + 1])
            /\ stack' = SetTop([Frame EXCEPT !.sent = Frame.sent + 1])
            /\ UNCHANGED <<reqs, faults, top, exc>>
       ELSE /\ CatCaught(ErrName(d))
            /\ reqs' = Append(reqs, Req("DATA", Frame.filepath, srvCwd, d))
            /\ faults' = faults + 1
  /\ UNCHANGED <<cmd, args, scn, srvCwd, localDirs, localFiles, ended>>

\* line 63 completes: cat_file returns
CatReturn ==
  /\ InCat("lines")
  /\ Frame.sent = Len(FileLines)
  /\ stack' = Pop
  /\ UNCHANGED <<cmd, args, scn, srvCwd, faults, reqs, out, top, exc, localDirs, localFiles, ended>>

(***************************************************************************)
(* The cat subcommand.                                                     *)
(***************************************************************************)
CatFiles ==
  { <<"/">> \o n_filetxt,
    <<"/">> \o n_dirA \o <<"/">> \o n_note,
    <<"/">> \o n_dirA,
    <<"/">> \o n_priv }

InitCat ==
  /\ cmd = "cat"
  /\ scn = "A"
  /\ args \in [ file : CatFiles, perms : BOOLEAN, error_ignore : BOOLEAN ]
  /\ srvCwd \in { <<>>, <<n_dirA>> }
  /\ faults = 0
  /\ reqs = <<>>
  /\ out = <<>>
  /\ stack = <<>>
  /\ top = "start"
  /\ exc = "none"
  /\ localDirs = { <<"/">>, getcwd }
  /\ localFiles = {}
  /\ ended = <<>>

NextCat == Connect \/ MainCat \/ CatProbe \/ CatRetr \/ CatLine \/ CatReturn \/ Quit \/ Interrupt

SpecCat == InitCat /\ [][NextCat]_vars

(***************************************************************************)
(* C13: failure handling of cat_file.                                      *)
(***************************************************************************)
IsCatLine(l) == l[1] \notin MainMessages \cup {"File content:"}

\* what cat_file has printed, in order
CatOut == SelectSeq(out, IsCatLine)

IsProbeReq(r) == r.op \in {"CWD", "LIST"}
IsRetrReq(r) == r.op \in {"RETR", "DATA"}

\* the failed requests of cat_file
CatFailures == { i \in 1..Len(reqs) : (IsProbeReq(reqs[i]) \/ IsRetrReq(reqs[i])) /\ reqs[i].res # "ok" }

\* a step of cat_file in which a request fails
CatFailureStep ==
  /\ cmd = "cat"
  /\ Len(reqs') > Len(reqs)
  /\ (IsProbeReq(reqs'[Len(reqs')]) \/ IsRetrReq(reqs'[Len(reqs')]))
  /\ reqs'[Len(reqs')].res # "ok"

\* C13: a failure of the permissions probe (change to root, scoped listing)
\* or of the retrieve never leaves cat_file: the call returns normally; one
\* line "Error reading file <path>: <message>" is printed iff error_ignore is
\* false, as the last line of cat_file; everything printed before stays
\* printed in order; after a failed probe no RETR is sent.
C13_CatFailureHandling ==
  /\ [] ( cmd = "cat" =>
           /\ exc \notin {"error_perm", "error", "IndexError"}
           /\ Cardinality(CatFailures) <= 1
           /\ LinesWith("Error reading file ") =
                (IF CatFailures # {} /\ ~args.error_ignore THEN 1 ELSE 0)
           /\ \A i \in 1..Len(CatOut) :
                CatOut[i][1] = "Error reading file " =>
                  /\ i = Len(CatOut)
                  /\ \E k \in CatFailures :
                       CatOut[i] = <<"Error reading file ">> \o args.file \o <<": ", ErrName(reqs[k].res)>>
           /\ \A i \in 1..Len(CatOut) :
                CatOut[i][1] = "Permissions: " => i = 1
           /\ LET first == IF CatOut # <<>> /\ CatOut[1][1] = "Permissions: " THEN 2 ELSE 1
                  last == IF CatOut # <<>> /\ CatOut[Len(CatOut)][1] = "Error reading file "
                          THEN Len(CatOut) - 1 ELSE Len(CatOut)
              IN  /\ last - first + 1 <= Len(FileLines)
                  /\ SubSeq(CatOut, first, last) = SubSeq(FileLines, 1, last - first + 1)
           /\ (\E k \in CatFailures : IsProbeReq(reqs[k])) =>
                \A j \in 1..Len(reqs) : ~IsRetrReq(reqs[j]) )
  /\ [][ cmd = "cat" => /\ Len(out') >= Len(out)
                        /\ SubSeq(out', 1, Len(out)) = out ]_vars
  /\ [][ CatFailureStep =>
           /\ stack # <<>>
           /\ stack' = <<>>
           /\ top' = "running"
           /\ exc' = "none" ]_vars

\* a run with the permissions probe in which the transfer breaks after the
\* first content line
C13_Witness ==
  /\ cmd = "cat" /\ args.perms /\ ~args.error_ignore
  /\ top = "exit" /\ exc = "none"
  /\ Len(CatOut) = 3
  /\ CatOut[1] = <<"Permissions: ">> \o Split(ScopedListing(<<>>, args.file)[1])[1]
  /\ CatOut[2] = FileLines[1]
  /\ CatOut[3] = <<"Error reading file ">> \o args.file \o <<": ", "error">>
  /\ \E k \in 1..Len(reqs) : reqs[k].op = "DATA" /\ reqs[k].res = "err"

(***************************************************************************)
(* C14: classification of a listed name by download_files.                 *)
(***************************************************************************)
\* a step of the loop that probes the next listed name
ProbeStep ==
  /\ InDownload("loop")
  /\ Frame.index < Len(Frame.items)
  /\ Frame.items[Frame.index + 1] \notin {n_dot, n_dotdot}
  /\ Len(reqs') > Len(reqs)

\* the requests the step has sent
NewReqs == SubSeq(reqs', Len(reqs) + 1, Len(reqs'))

\* both directory changes of the probe succeeded
ProbeBothOk ==
  /\ Len(NewReqs) >= 2
  /\ NewReqs[1].res = "ok"
  /\ NewReqs[2].op = "CWD" /\ NewReqs[2].res = "ok"

\* the step went on into the directory branch, or into the file branch
TakenAsDirectory ==
  /\ Len(stack') = Len(stack) + 1
  /\ stack'[Len(stack')].pattern = sub_pattern(Frame.directory, Frame.items[Frame.index + 1])
TakenAsFile == NewReqs[Len(NewReqs)].op = "RETR"

\* the probe itself ended the download
ProbeRaised == exc' \in {"error", "error_perm"} /\ NewReqs[Len(NewReqs)].op = "CWD"

\* C14: a listed name is a directory iff the change into it and the change
\* back to the parent both succeed, and a file in every other case, whatever
\* the kind of failure; after the classification the remote current
\* directory is the directory being processed.
C14_Classification ==
  [][ ProbeStep =>
        LET item == Frame.items[Frame.index + 1]
        IN  /\ ~ProbeRaised
            /\ TakenAsDirectory => ProbeBothOk
            /\ TakenAsFile => ~ProbeBothOk
            /\ (ProbeBothOk /\ dir_matches(item, Frame.wildcard) /\ local_dir_of(item) \notin localFiles)
                 => TakenAsDirectory
            /\ (~ProbeBothOk /\ file_matches(item, Frame.wildcard) /\ can_open(local_path_of(Frame.directory, item)))
                 => TakenAsFile
            /\ TakenAsFile => NewReqs[Len(NewReqs)].at = srvCwd
            /\ (~TakenAsFile /\ exc' = "none") => srvCwd' = srvCwd ]_vars

(***************************************************************************)
(* C15: download_files when the directory part cannot be entered.          *)
(***************************************************************************)
\* the step in which the change into the directory part fails
EntryFails ==
  /\ InDownload("enter")
  /\ stack' # <<>>
  /\ stack'[Len(stack')].pc = "abort"

\* the step that follows it: the handler's remaining statements
AfterFailedEntry ==
  /\ InDownload("abort")
  /\ Len(reqs') > Len(reqs)

\* C15: when the change into a non-empty directory part fails, the call sends
\* no listing, no probe and no retrieve, creates nothing locally, changes
\* back to the directory recorded at entry and returns without raising.
C15_FailedEntry ==
  /\ [][ EntryFails =>
           /\ Frame.directory # <<>>
           /\ reqs'[Len(reqs')].op = "CWD" /\ reqs'[Len(reqs')].res # "ok"
           /\ srvCwd' = srvCwd
           /\ localDirs' = localDirs /\ localFiles' = localFiles ]_vars
  /\ [][ AfterFailedEntry =>
           /\ NewReqs = << Req("CWD", Frame.base_directory, srvCwd, "ok") >>
           /\ localDirs' = localDirs /\ localFiles' = localFiles
           /\ Pwd(srvCwd') = Frame.base_directory
           /\ exc' = "none"
           /\ stack' = Pop
           /\ ended'[Len(ended')] = Ended(Frame, "returned", srvCwd') ]_vars

(***************************************************************************)
(* C16: the descent rule of ftp_tree.                                      *)
(***************************************************************************)
\* a step of the loop that prints the line of an entry
PrintsEntry ==
  /\ cmd = "list"
  /\ top = "running" /\ top' = "running"
  /\ stack # <<>>
  /\ Frame.pc = "loop"
  /\ Len(out') = Len(out) + 1

\* a path has a component with a '.' in it
Dotted(path) == \E k \in 1..Len(path) : \E j \in 1..Len(path[k]) : path[k][j] = "."

\* C16: ftp_tree recurses into a printed entry iff its display name has no
\* '.', its permission string starts with 'd', world_writable is false and
\* the depth is None or greater than 1; the child call gets the path
\* parent + "/" + name ("/" + name under "/") and the depth None, or
\* depth - 1.  No directory with a '.' in its name is changed into or listed.
C16_DescentRule ==
  /\ [][ PrintsEntry =>
           LET item == Frame.items[Frame.index + 1]
               name == Last(SplitOn(item[9], "/"))
               depth == Frame.recursion_depth
               child == stack'[Len(stack')]
           IN  /\ Len(stack') \in {Len(stack), Len(stack) + 1}
               /\ Len(stack') = Len(stack) + 1 <=>
                    /\ \A j \in 1..Len(name) : name[j] # "."
                    /\ item[1][1] = "d"
                    /\ ~args.world_writable
                    /\ (depth = None \/ depth[1] > 1)
               /\ Len(stack') = Len(stack) + 1 =>
                    /\ child.fn = "ftp_tree" /\ child.pc = "call"
                    /\ child.directory = (IF Frame.directory = <<"/">> THEN <<"/">> \o name
                                          ELSE Frame.directory \o <<"/">> \o name)
                    /\ child.recursion_depth = (IF depth = None THEN None ELSE Some(depth[1] - 1)) ]_vars
  /\ [] ( cmd = "list" =>
            \A i \in 1..Len(reqs) :
              /\ IsListReq(reqs[i]) => ~Dotted(reqs[i].at)
              /\ IsCwdReq(reqs[i]) => ~Dotted(Resolve(reqs[i].at, reqs[i].arg)) )

\* the directory c.d is printed and not entered, its sibling priv is entered
C16_Witness ==
  /\ cmd = "list" /\ scn = "Wide" /\ args.recursion = None /\ ~args.world_writable
  /\ top = "exit" /\ exc = "none"
  /\ \E k \in 1..Len(TreeOut) : EndsWith(TreeOut[k], n_cd)
  /\ \E i \in 1..Len(reqs) : IsCwdReq(reqs[i]) /\ reqs[i].arg = <<"/">> \o n_priv
  /\ \A i \in 1..Len(reqs) : IsCwdReq(reqs[i]) => reqs[i].arg # <<"/">> \o n_cd

(***************************************************************************)
(* C17: termination of ftp_tree without a depth limit.                     *)
(***************************************************************************)
\* the statements of the program run one after the other: a step that can be
\* taken is taken; the interruption by the user is never bound to happen
ProgramStep == Connect \/ MainList \/ TreeCall \/ TreeItem \/ TreeReturn \/ Quit

SpecListFair == SpecList /\ WF_vars(ProgramStep)

\* ftp_tree is running
Walking == cmd = "list" /\ top = "running" /\ stack # <<>>

\* the last component of the argument of a directory change
ChangedInto(r) == Last(SplitOn(r.arg, "/"))

\* C17: with recursion_depth = None, also with show_hidden and listings that
\* carry '.' and '..', a running ftp_tree comes to its end; it never changes
\* into '.' or '..' and lists no directory twice.
C17_Terminates ==
  /\ [] ( (cmd = "list" /\ args.recursion = None) =>
            /\ \A i \in 1..Len(reqs) :
                 IsCwdReq(reqs[i]) => ChangedInto(reqs[i]) \notin {n_dot, n_dotdot}
            /\ \A i, j \in 1..Len(reqs) :
                 (IsListReq(reqs[i]) /\ IsListReq(reqs[j]) /\ reqs[i].at = reqs[j].at) => i = j )
  /\ (Walking /\ args.recursion = None) ~> (stack = <<>>)

\* a walk without depth limit over listings with '.' and '..', shown because
\* show_hidden is set, has ended after listing the two directories
C17_Witness ==
  /\ cmd = "list" /\ scn = "Dots" /\ args.hidden /\ args.recursion = None
  /\ ~args.only_dir /\ ~args.world_writable
  /\ top = "exit" /\ exc = "none" /\ faults = 0
  /\ Count(IsListReq) = 2
  /\ \E k \in 1..Len(TreeOut) : EndsWith(TreeOut[k], Glyph("TEE") \o n_dotdot)
  /\ \E k \in 1..Len(TreeOut) : TreeOut[k] = <<" ", " ", " ", " ">> \o Glyph("TEE") \o n_dot

(***************************************************************************)
(* C18: where download_files stands when it probes and retrieves.          *)
(***************************************************************************)
\* the directory a call has listed: its directory part, entered from the
\* directory recorded at entry
ListingDirOf(f) == Resolve(Resolve(<<>>, f.base_directory), f.directory)

\* C18: at every level of download_files, the probe of a listed name and its
\* retrieve are sent while the remote current directory is the directory
\* whose listing gave the name, also after a recursive call for an earlier
\* name has returned.
C18_ProbedWhereListed ==
  [][ ProbeStep =>
        /\ NewReqs[1].op = "CWD"
        /\ NewReqs[1].arg = Frame.items[Frame.index + 1]
        /\ NewReqs[1].at = ListingDirOf(Frame)
        /\ \A k \in 1..Len(NewReqs) :
             NewReqs[k].op = "RETR" => NewReqs[k].at = ListingDirOf(Frame) ]_vars

=============================================================================
